---- MODULE Spec2Model ----
(***************************************************************************)
(* A model of src/src/midi.cpp (namespace rack::midi): the driver          *)
(* registry, InputDevice / OutputDevice subscriber sets, Port, Input,      *)
(* InputQueue and Output.                                                  *)
(*                                                                         *)
(* Every handler of the source is written as an operator over a "world"    *)
(* record (the fields the handler reads and writes), so that a handler     *)
(* which calls another one (setDriverId -> setDeviceId, fromJson ->        *)
(* setDriverId, ...) is the composition of the operators.  An action of    *)
(* the model runs one whole handler and commits the resulting world.       *)
(*                                                                         *)
(* The Driver is an abstract interface whose implementations are outside   *)
(* this file: each driver call takes its outcome (returns / throws) from   *)
(* an oracle record chosen nondeterministically by the action.             *)
(***************************************************************************)
EXTENDS Integers, Sequences, FiniteSets, TLC

\* ------------------------------------------------------------- bounds
MaxDrivers == 2
MaxDevice == 1
MaxChannel == 1
queueMaxSize == 2
MaxUnsubFailures == 1
MaxTime == 1

\* ---------------------------------------------------------- constants
NULL == 0

\* in1 is an InputQueue; in2 and in3 are Inputs whose onMessage is the
\* application's
Inputs == {"in1", "in2", "in3"}
InputQueues == {"in1"}
Outputs == {"out1", "out2"}
Ports == Inputs \cup Outputs

DriverHandles == 1..MaxDrivers
DeviceIds == 0..MaxDevice
Channels == -1..MaxChannel

\* A device object is owned by a driver: (direction, driver, device id).
NoDevice == [dir |-> "none", drv |-> NULL, id |-> -1]
InDevice(h, k) == [dir |-> "in", drv |-> h, id |-> k]
OutDevice(h, k) == [dir |-> "out", drv |-> h, id |-> k]
AllDevices == [dir : {"in", "out"}, drv : DriverHandles, id : DeviceIds]

\* The ports a run of the application creates: two inputs, or an output.
\* (Input and Output ports share no state: their devices are different objects.)
Scopes == {{"in1", "in2"}, {"out1"}}

\* a run that creates one port
Singles == {{p} : p \in Ports}

VARIABLES
  scope,        \* the ports this run of the application creates
  drivers,      \* the registry: a sequence of [id, drv] pairs
  alive,        \* alive[p]: port p is constructed and not yet destroyed
  driver,       \* Port::driver
  driverId,     \* Port::driverId
  device,       \* Port::device (and inputDevice / outputDevice)
  deviceId,     \* Port::deviceId
  channel,      \* Port::channel
  subscribed,   \* subscribed[dev]: InputDevice::subscribed / OutputDevice::subscribed
  queue,        \* InputQueue::queue
  pending,      \* history: successful subscribe calls not yet matched by an unsubscribe call
  mismatch,     \* history: a subscribe / unsubscribe call was issued out of turn
  unsubFails,   \* history: number of unsubscribe calls that threw
  escaped,      \* history: an exception left a Port operation
  oob,          \* history: drivers[0] was read while the registry was empty
  dangling,     \* history: a call was made through a pointer to a deleted driver
  crashed,      \* the process was terminated by undefined behaviour
  shutdown,     \* midi::destroy() has run
  fan,          \* the position of a driver thread inside InputDevice::onMessage
  hazard,       \* history: "race" (a subscriber set was changed while a fan-out was
                \* iterating it), "uaf" (a destroyed port was used by a fan-out)
  last          \* history: the last operation, its arguments and the driver calls it made

vars == <<scope, drivers, alive, driver, driverId, device, deviceId, channel, subscribed,
          queue, pending, mismatch, unsubFails, escaped, oob, dangling, crashed,
          shutdown, fan, hazard, last>>

\* ------------------------------------------------------------- world
World ==
  [drivers |-> drivers, driver |-> driver, driverId |-> driverId, device |-> device,
   deviceId |-> deviceId, channel |-> channel, subscribed |-> subscribed,
   pending |-> pending, mismatch |-> mismatch, unsubFails |-> unsubFails,
   escaped |-> escaped, oob |-> oob, dangling |-> dangling, crashed |-> crashed,
   calls |-> <<>>]

Commit(w) ==
  /\ drivers' = w.drivers
  /\ driver' = w.driver
  /\ driverId' = w.driverId
  /\ device' = w.device
  /\ deviceId' = w.deviceId
  /\ channel' = w.channel
  /\ subscribed' = w.subscribed
  /\ pending' = w.pending
  /\ mismatch' = w.mismatch
  /\ unsubFails' = w.unsubFails
  /\ escaped' = w.escaped
  /\ oob' = w.oob
  /\ dangling' = w.dangling
  /\ crashed' = w.crashed

\* ---------------------------------------------------------- registry
RECURSIVE getDriverFrom(_, _, _)
getDriverFrom(drvs, i, id) ==
  IF i > Len(drvs) THEN NULL
  ELSE IF drvs[i].id = id THEN drvs[i].drv
  ELSE getDriverFrom(drvs, i + 1, id)

\* mutant: the search misses the first registered driver
getDriver_skipFirst(drvs, id) == getDriverFrom(drvs, 2, id)

getDriver(drvs, id) == getDriverFrom(drvs, 1, id)

getDriverIds(drvs) == [i \in 1..Len(drvs) |-> drvs[i].id]

IsLive(w, h) == \E i \in 1..Len(w.drivers) : w.drivers[i].drv = h

\* ------------------------------------------------------------ Device
InputDevice_subscribe(set, input) == set \cup {input}

\* mutant: the subscriptions are cleared
InputDevice_unsubscribe_clear(set, input) == IF input \in set THEN {} ELSE set

InputDevice_unsubscribe(set, input) == IF input \in set THEN set \ {input} ELSE set

OutputDevice_subscribe(set, output) == set \cup {output}

OutputDevice_unsubscribe(set, output) == IF output \in set THEN set \ {output} ELSE set

\* ----------------------------------------------------------- Message
\* byte 0 holds the status nibble and the channel nibble
getStatus(m) == m.b0 \div 16

getChannel(m) == m.b0 % 16

setChannel(m, c) == [m EXCEPT !.b0 = (m.b0 \div 16) * 16 + (c % 16)]

System == 15
\* the status nibbles the drivers produce here: note-on and system
Statuses == {9, System}
Messages ==
  [b0 : {st * 16 + c : st \in Statuses, c \in 0..MaxChannel},
   data1 : {60}, data2 : {100}, timestamp : 0..MaxTime]
NoMessage == [b0 |-> 0, data1 |-> 0, data2 |-> 0, timestamp |-> 0]

\* system::getTime(): later than every timestamp a driver has put on a message
Now == MaxTime + 1

\* mutant: the filter is applied to system messages too
Passes_filterSystem(msg, c) == ~(c >= 0 /\ getChannel(msg) # c)

\* line 40: the test that lets a message through to an Input
Passes(msg, c) == ~(getStatus(msg) # System /\ c >= 0 /\ getChannel(msg) # c)

\* mutant: every message is stamped with the current time
Stamped_always(message, now) == [message EXCEPT !.timestamp = now]

\* lines 32-34
Stamped(message, now) ==
  IF message.timestamp = 0 THEN [message EXCEPT !.timestamp = now] ELSE message

\* mutant: the message is put at the head of the queue
InputQueue_onMessage_front(q, message) ==
  IF Len(q) >= queueMaxSize THEN q ELSE <<message>> \o q

\* mutant: the queue is full one message later
InputQueue_onMessage_offByOne(q, message) ==
  IF Len(q) > queueMaxSize THEN q ELSE Append(q, message)

InputQueue_onMessage(q, message) ==
  IF Len(q) >= queueMaxSize THEN q ELSE Append(q, message)

\* One whole call of InputDevice::onMessage with no other thread running:
\* the ports whose onMessage ran, the message they were given, the queues.
\* mutant: the handler of a subscribed port is invoked twice
InputDevice_onMessage_twice(set, chan, q, message, now) ==
  LET msg == Stamped(message, now)
      handled == {input \in set : Passes(msg, chan[input])}
  IN [msg |-> msg, handled |-> handled,
      queue |-> [p \in DOMAIN q |->
                   IF p \in handled
                   THEN InputQueue_onMessage(InputQueue_onMessage(q[p], msg), msg)
                   ELSE q[p]]]

InputDevice_onMessage(set, chan, q, message, now) ==
  LET msg == Stamped(message, now)
      handled == {input \in set : Passes(msg, chan[input])}
  IN [msg |-> msg, handled |-> handled,
      queue |-> [p \in DOMAIN q |->
                   IF p \in handled THEN InputQueue_onMessage(q[p], msg) ELSE q[p]]]

\* mutant: the channel is written into system messages too
Output_sendMessage_stampAll(dev, chan, message) ==
  IF dev = NoDevice THEN [sent |-> FALSE, msg |-> NoMessage]
  ELSE [sent |-> TRUE, msg |-> IF chan >= 0 THEN setChannel(message, chan) ELSE message]

\* lines 312-330: what is handed to the device, if anything
Output_sendMessage(dev, chan, message) ==
  IF dev = NoDevice THEN [sent |-> FALSE, msg |-> NoMessage]
  ELSE [sent |-> TRUE,
        msg |-> IF getStatus(message) # System /\ chan >= 0 THEN setChannel(message, chan)
                ELSE message]

\* the driver thread is outside InputDevice::onMessage
FanIdle == [pc |-> "idle", dev |-> NoDevice, msg |-> NoMessage, rest |-> {}, cur |-> "none"]

\* ------------------------------------------------------------ Driver
\* The oracle of one handler run: which driver calls throw, and what an
\* undefined read or call produces ("crash", or a garbage registry pair).
Crash == [id |-> -1, drv |-> -1]
OracleOk == [unsub |-> TRUE, sub |-> TRUE, ids |-> TRUE, names |-> TRUE, ub |-> Crash]

\* F applied to the value of x (x is evaluated once)
Then(x, F(_)) == CHOOSE r \in {F(v) : v \in {x}} : TRUE

Log(w, kind, ok) == [w EXCEPT !.calls = Append(@, [kind |-> kind, ok |-> ok])]

\* A call through a pointer to a deleted driver is undefined: the process
\* stops, or the call runs on the stale object.
ThroughPointer(w, h, o) ==
  IF IsLive(w, h) THEN w
  ELSE [w EXCEPT !.dangling = TRUE, !.crashed = (o.ub = Crash)]

\* subscribeInput / subscribeOutput: registers the port with the device and
\* returns the device, or throws and registers nothing
Driver_subscribe(w, dev, p, o) ==
  Then(ThroughPointer(w, dev.drv, o), LAMBDA w0 :
    IF w0.crashed THEN [w |-> w0, thrown |-> FALSE, dev |-> NoDevice]
    ELSE Then([Log(w0, "sub", o.sub) EXCEPT !.mismatch = @ \/ (w0.pending[p] # {})],
              LAMBDA w1 :
      IF o.sub
      THEN [w |-> [w1 EXCEPT !.subscribed[dev] =
                               IF dev.dir = "in" THEN InputDevice_subscribe(@, p)
                               ELSE OutputDevice_subscribe(@, p),
                             !.pending[p] = {dev}],
            thrown |-> FALSE, dev |-> dev]
      ELSE [w |-> w1, thrown |-> TRUE, dev |-> NoDevice]))

\* unsubscribeInput / unsubscribeOutput: removes the port from the device's
\* subscriber set, or throws and removes nothing
Driver_unsubscribe(w, dev, p, o) ==
  Then(ThroughPointer(w, dev.drv, o), LAMBDA w0 :
    IF w0.crashed THEN [w |-> w0, thrown |-> FALSE]
    ELSE Then([Log(w0, "unsub", o.unsub) EXCEPT !.mismatch = @ \/ (w0.pending[p] # {dev}),
                                                !.pending[p] = @ \ {dev}],
              LAMBDA w1 :
      IF o.unsub
      THEN [w |-> [w1 EXCEPT !.subscribed[dev] =
                               IF dev.dir = "in" THEN InputDevice_unsubscribe(@, p)
                               ELSE OutputDevice_unsubscribe(@, p)],
            thrown |-> FALSE]
      ELSE [w |-> [w1 EXCEPT !.unsubFails = @ + 1], thrown |-> TRUE]))

\* the ids a driver enumerates, in its order
Driver_getDeviceIds(w, h, o) ==
  Then(ThroughPointer(w, h, o), LAMBDA w0 :
    IF w0.crashed THEN [w |-> w0, thrown |-> FALSE, ids |-> <<>>]
    ELSE IF o.ids THEN [w |-> Log(w0, "ids", TRUE), thrown |-> FALSE,
                        ids |-> [i \in 1..(MaxDevice + 1) |-> i - 1]]
    ELSE [w |-> Log(w0, "ids", FALSE), thrown |-> TRUE, ids |-> <<>>])

\* The names the devices report.  Driver 1 names its devices "a", "b", "b", ...;
\* the other drivers name every input device "a", and their output device 0
\* reports an empty name.
DeviceNameOf(dev) ==
  IF dev.drv = 1 THEN (IF dev.id = 0 THEN "a" ELSE "b")
  ELSE IF dev.dir = "out" /\ dev.id = 0 THEN ""
  ELSE "a"

Driver_getDeviceName(w, dev, o) ==
  Then(ThroughPointer(w, dev.drv, o), LAMBDA w0 :
    IF w0.crashed THEN [w |-> w0, thrown |-> FALSE, name |-> ""]
    ELSE IF o.names THEN [w |-> Log(w0, "name", TRUE), thrown |-> FALSE,
                          name |-> DeviceNameOf(dev)]
    ELSE [w |-> Log(w0, "name", FALSE), thrown |-> TRUE, name |-> ""])

\* -------------------------------------------------------------- Port
\* lines 196-208 and 277-289: clear the device, then bind device k
BindDevice(w1, dev, p, k, o) ==
  Then([w1 EXCEPT !.device[p] = NoDevice, !.deviceId[p] = -1], LAMBDA w2 :
    IF w2.driver[p] # NULL /\ k >= 0
    THEN Then(Driver_subscribe(w2, dev, p, o), LAMBDA r :
           IF r.thrown \/ r.w.crashed THEN r.w
           ELSE [r.w EXCEPT !.device[p] = r.dev, !.deviceId[p] = k])
    ELSE w2)

\* mutant: the old device is forgotten without the unsubscribe call
Input_setDeviceId_noUnsubscribe(w, p, k, o) ==
  BindDevice(w, InDevice(w.driver[p], k), p, k, o)

Input_setDeviceId(w, p, k, o) ==
  Then(IF w.driver[p] # NULL /\ w.deviceId[p] >= 0
       THEN Driver_unsubscribe(w, InDevice(w.driver[p], w.deviceId[p]), p, o).w
       ELSE w,
       LAMBDA w1 : IF w1.crashed THEN w1
                   ELSE BindDevice(w1, InDevice(w1.driver[p], k), p, k, o))

Output_setDeviceId(w, p, k, o) ==
  Then(IF w.driver[p] # NULL /\ w.deviceId[p] >= 0
       THEN Driver_unsubscribe(w, OutDevice(w.driver[p], w.deviceId[p]), p, o).w
       ELSE w,
       LAMBDA w1 : IF w1.crashed THEN w1
                   ELSE BindDevice(w1, OutDevice(w1.driver[p], k), p, k, o))

\* virtual void setDeviceId(int) = 0, overridden by Input and Output
setDeviceId(w, p, k, o) ==
  IF p \in Inputs THEN Input_setDeviceId(w, p, k, o) ELSE Output_setDeviceId(w, p, k, o)

\* lines 83-91: the driver registered under id, or the first registered one;
\* drivers[0] of an empty registry is an undefined read
BindDriver(w2, p, id, o) ==
  Then(getDriver(w2.drivers, id), LAMBDA d :
    IF d # NULL THEN [w2 EXCEPT !.driver[p] = d, !.driverId[p] = id]
    ELSE IF Len(w2.drivers) > 0
    THEN [w2 EXCEPT !.driver[p] = w2.drivers[1].drv, !.driverId[p] = w2.drivers[1].id]
    ELSE IF o.ub = Crash THEN [w2 EXCEPT !.oob = TRUE, !.crashed = TRUE]
    ELSE [w2 EXCEPT !.oob = TRUE, !.driver[p] = o.ub.drv, !.driverId[p] = o.ub.id])

\* mutant: an id that is not registered leaves the port without a driver
Port_setDriverId_noFallback(w, p, id, o) ==
  Then(setDeviceId(w, p, -1, o), LAMBDA w1 :
    Then(getDriver(w1.drivers, id), LAMBDA d :
      IF d # NULL THEN [w1 EXCEPT !.driver[p] = d, !.driverId[p] = id]
      ELSE [w1 EXCEPT !.driver[p] = NULL, !.driverId[p] = -1]))

Port_setDriverId(w, p, id, o) ==
  Then(setDeviceId(w, p, -1, o), LAMBDA w1 :
    IF w1.crashed THEN w1
    ELSE Then([w1 EXCEPT !.driver[p] = NULL, !.driverId[p] = -1],
              LAMBDA w2 : BindDriver(w2, p, id, o)))

Port_setChannel(w, p, c) == [w EXCEPT !.channel[p] = c]

\* mutant: the channel filter survives the reset
Input_reset_keepChannel(w, p, o) == Port_setDriverId(w, p, -1, o)

Input_reset(w, p, o) ==
  Then(Port_setDriverId(w, p, -1, o), LAMBDA w1 : [w1 EXCEPT !.channel[p] = -1])

Output_reset(w, p, o) ==
  Then(Port_setDriverId(w, p, -1, o), LAMBDA w1 : [w1 EXCEPT !.channel[p] = 0])

reset(w, p, o) == IF p \in Inputs THEN Input_reset(w, p, o) ELSE Output_reset(w, p, o)

Input_getDeviceIds(w, p, o) ==
  IF w.driver[p] = NULL THEN [w |-> w, ids |-> <<>>]
  ELSE Then(Driver_getDeviceIds(w, w.driver[p], o), LAMBDA r :
         IF r.thrown THEN [w |-> r.w, ids |-> <<>>] ELSE [w |-> r.w, ids |-> r.ids])

Output_getDeviceIds(w, p, o) ==
  IF w.driver[p] = NULL THEN [w |-> w, ids |-> <<>>]
  ELSE Then(Driver_getDeviceIds(w, w.driver[p], o), LAMBDA r :
         IF r.thrown THEN [w |-> r.w, ids |-> <<>>] ELSE [w |-> r.w, ids |-> r.ids])

getDeviceIds(w, p, o) ==
  IF p \in Inputs THEN Input_getDeviceIds(w, p, o) ELSE Output_getDeviceIds(w, p, o)

Input_getDeviceName(w, p, k, o) ==
  IF w.driver[p] = NULL THEN [w |-> w, name |-> ""]
  ELSE Then(Driver_getDeviceName(w, InDevice(w.driver[p], k), o), LAMBDA r :
         IF r.thrown THEN [w |-> r.w, name |-> ""] ELSE [w |-> r.w, name |-> r.name])

\* line 293 tests `if (driver)`: with a driver the name is "", without one
\* the call goes through the null pointer
Output_getDeviceName(w, p, k, o) ==
  IF w.driver[p] # NULL THEN [w |-> w, name |-> ""]
  ELSE Then(Driver_getDeviceName(w, OutDevice(w.driver[p], k), o), LAMBDA r :
         IF r.thrown THEN [w |-> r.w, name |-> ""] ELSE [w |-> r.w, name |-> r.name])

getDeviceName(w, p, k, o) ==
  IF p \in Inputs THEN Input_getDeviceName(w, p, k, o) ELSE Output_getDeviceName(w, p, k, o)

\* The persisted record.  An absent field has its has* flag FALSE.
NoJson ==
  [hasDriver |-> FALSE, driver |-> -1, hasName |-> FALSE, deviceName |-> "",
   hasChannel |-> FALSE, channel |-> -1]

Port_toJson(w, p) ==
  Then(IF w.device[p] # NoDevice THEN DeviceNameOf(w.device[p]) ELSE "", LAMBDA deviceName :
    [hasDriver |-> TRUE, driver |-> w.driverId[p],
     hasName |-> (w.device[p] # NoDevice /\ deviceName # ""), deviceName |-> deviceName,
     hasChannel |-> TRUE, channel |-> w.channel[p]])

\* lines 143-148: the first enumerated id whose name equals the persisted one
RECURSIVE fromJsonSearch(_, _, _, _, _, _)
fromJsonSearch(w, p, ids, i, deviceName, o) ==
  IF i > Len(ids) \/ w.crashed THEN w
  ELSE Then(getDeviceName(w, p, ids[i], o), LAMBDA r :
         IF r.w.crashed THEN r.w
         ELSE IF r.name = deviceName THEN setDeviceId(r.w, p, ids[i], o)
         ELSE fromJsonSearch(r.w, p, ids, i + 1, deviceName, o))

\* lines 138-154: the device name, then the channel
fromJsonDevice(w2, p, rootJ, o) ==
  Then(IF w2.driver[p] # NULL /\ rootJ.hasName /\ ~w2.crashed
       THEN Then(getDeviceIds(w2, p, o), LAMBDA r :
              fromJsonSearch(r.w, p, r.ids, 1, rootJ.deviceName, o))
       ELSE w2,
       LAMBDA w3 : IF rootJ.hasChannel /\ ~w3.crashed
                   THEN [w3 EXCEPT !.channel[p] = rootJ.channel]
                   ELSE w3)

Port_fromJson(w, p, rootJ, o) ==
  Then(Port_setDriverId(w, p, -1, o), LAMBDA w1 :
    Then(IF rootJ.hasDriver /\ ~w1.crashed THEN Port_setDriverId(w1, p, rootJ.driver, o)
         ELSE w1,
         LAMBDA w2 : fromJsonDevice(w2, p, rootJ, o)))

\* the member initialisers of a Port that is not (or no longer) an object
Unconstructed(w, p) ==
  [w EXCEPT !.driver[p] = NULL, !.driverId[p] = -1, !.device[p] = NoDevice,
            !.deviceId[p] = -1, !.channel[p] = -1]

\* ------------------------------------------------------------ oracles
OraclesUnsub == {[OracleOk EXCEPT !.unsub = u] : u \in BOOLEAN}
OraclesBind == {[OracleOk EXCEPT !.unsub = u, !.sub = s] : u, s \in BOOLEAN}

\* during a load at most one kind of driver call throws
OraclesLoad ==
  {OracleOk, [OracleOk EXCEPT !.unsub = FALSE], [OracleOk EXCEPT !.ids = FALSE],
   [OracleOk EXCEPT !.names = FALSE], [OracleOk EXCEPT !.sub = FALSE]}

\* the persisted records a load is given: the channel field is absent
JsonNames == {"", "a", "b"}
JsonsUnbound ==
  {[NoJson EXCEPT !.hasDriver = TRUE, !.driver = d] : d \in 1..MaxDrivers} \cup {NoJson}
JsonsBound == {[j EXCEPT !.hasName = TRUE, !.deviceName = n] : j \in JsonsUnbound, n \in JsonNames}

\* the records loaded while ports are being rebound: none of the fields; a
\* name of the default driver's second device; the last registered driver
\* with a name of its devices; an empty name
JsonsRebind ==
  {NoJson,
   [NoJson EXCEPT !.hasName = TRUE, !.deviceName = "b"],
   [NoJson EXCEPT !.hasDriver = TRUE, !.driver = 1, !.hasName = TRUE, !.deviceName = "a"],
   [NoJson EXCEPT !.hasName = TRUE, !.deviceName = ""]}

\* A call can throw only when it is made, and an unsubscribe call only
\* while the budget of failures lasts; an undefined outcome is drawn only
\* where something undefined can happen.
Allowed(p, k, o) ==
  /\ o.unsub \/ (driver[p] # NULL /\ deviceId[p] >= 0 /\ unsubFails < MaxUnsubFailures)
  /\ o.sub \/ k >= 0
  /\ o.ub = Crash \/ Len(drivers) = 0 \/ (driver[p] # NULL /\ ~IsLive(World, driver[p]))

\* the same for a load: the enumeration, lookups and subscribe happen only
\* for a record with a device name, and nothing follows a failed enumeration
AllowedLoad(p, rootJ, o) ==
  /\ Allowed(p, 0, o)
  /\ (o.sub /\ o.ids /\ o.names) \/ rootJ.hasName

\* ----------------------------------------------------------- actions
\* no port is constructed yet
NoPorts ==
  /\ alive = [p \in Ports |-> FALSE]
  /\ driver = [p \in Ports |-> NULL]
  /\ driverId = [p \in Ports |-> -1]
  /\ device = [p \in Ports |-> NoDevice]
  /\ deviceId = [p \in Ports |-> -1]
  /\ channel = [p \in Ports |-> -1]
  /\ subscribed = [d \in AllDevices |-> {}]
  /\ queue = [p \in InputQueues |-> <<>>]
  /\ pending = [p \in Ports |-> {}]
  /\ mismatch = FALSE
  /\ unsubFails = 0
  /\ escaped = FALSE
  /\ oob = FALSE
  /\ dangling = FALSE
  /\ crashed = FALSE
  /\ shutdown = FALSE
  /\ fan = FanIdle
  /\ hazard = {}
  /\ last = [op |-> "none", port |-> "none", arg |-> -1, made |-> {}, thrown |-> {}]

\* the drivers the application registered at start-up, in the order of the
\* addDriver calls
Registered == [i \in 1..MaxDrivers |-> [id |-> MaxDrivers + 1 - i, drv |-> i]]

Init ==
  /\ scope \in Scopes
  /\ drivers = Registered
  /\ NoPorts

\* the kinds of driver call the handler made, and those that threw
Made(w) == {w.calls[i].kind : i \in 1..Len(w.calls)}

Thrown(w) == {w.calls[i].kind : i \in {n \in 1..Len(w.calls) : ~w.calls[n].ok}}

\* What a fan-out in progress still has to visit once the set it iterates
\* was changed under it: std::set gives no guarantee, the iterator may or may
\* not see an erased or an inserted node.
RestAfter(w) ==
  IF fan.pc = "idle" \/ w.subscribed[fan.dev] = subscribed[fan.dev] THEN {fan.rest}
  ELSE {fan.rest, fan.rest \cap w.subscribed[fan.dev],
        fan.rest \cup (w.subscribed[fan.dev] \ subscribed[fan.dev])}

Done(w, op, p, arg) ==
  /\ Commit(w)
  /\ \E r \in RestAfter(w) : fan' = [fan EXCEPT !.rest = r]
  /\ hazard' = IF RestAfter(w) = {fan.rest} THEN hazard ELSE hazard \cup {"race"}
  /\ last' = [op |-> op, port |-> p, arg |-> arg, made |-> Made(w), thrown |-> Thrown(w)]

\* run handler F on the current world and commit what it returns
Handle(F(_), op, p, arg) == \E w0 \in {World} : \E w \in {F(w0)} : Done(w, op, p, arg)

\* Input::Input / Output::Output
Construct(p, o) ==
  /\ ~crashed /\ p \in scope /\ ~alive[p] /\ Allowed(p, -1, o)
  /\ alive' = [alive EXCEPT ![p] = TRUE]
  /\ Handle(LAMBDA w : reset(w, p, o), "construct", p, -1)
  /\ UNCHANGED <<scope, shutdown, queue>>

\* Input::~Input / Output::~Output
Destruct(p, o) ==
  /\ ~crashed /\ p \in scope /\ alive[p] /\ Allowed(p, -1, o)
  /\ alive' = [alive EXCEPT ![p] = FALSE]
  /\ Handle(LAMBDA w : Unconstructed(Port_setDriverId(w, p, -1, o), p), "destruct", p, -1)
  /\ queue' = IF p \in InputQueues THEN [queue EXCEPT ![p] = <<>>] ELSE queue
  /\ UNCHANGED <<scope, shutdown>>

SetDriverId(p, id, o) ==
  /\ ~crashed /\ p \in scope /\ alive[p] /\ Allowed(p, -1, o)
  /\ Handle(LAMBDA w : Port_setDriverId(w, p, id, o), "setDriverId", p, id)
  /\ UNCHANGED <<scope, shutdown, alive, queue>>

SetDeviceId(p, k, o) ==
  /\ ~crashed /\ p \in scope /\ alive[p] /\ Allowed(p, k, o)
  /\ Handle(LAMBDA w : setDeviceId(w, p, k, o), "setDeviceId", p, k)
  /\ UNCHANGED <<scope, shutdown, alive, queue>>

Reset(p, o) ==
  /\ ~crashed /\ p \in scope /\ alive[p] /\ Allowed(p, -1, o)
  /\ Handle(LAMBDA w : reset(w, p, o), "reset", p, -1)
  /\ UNCHANGED <<scope, shutdown, alive, queue>>

FromJson(p, rootJ, o) ==
  /\ ~crashed /\ p \in scope /\ alive[p] /\ AllowedLoad(p, rootJ, o)
  /\ Handle(LAMBDA w : Port_fromJson(w, p, rootJ, o), "fromJson", p, rootJ)
  /\ UNCHANGED <<scope, shutdown, alive, queue>>

SetChannel(p, c) ==
  /\ ~crashed /\ p \in scope /\ alive[p]
  /\ Handle(LAMBDA w : Port_setChannel(w, p, c), "setChannel", p, c)
  /\ UNCHANGED <<scope, shutdown, alive, queue>>

\* InputDevice::onMessage called by the driver, run to its end
OnMessage(dev, message) ==
  LET r == InputDevice_onMessage(subscribed[dev], channel, queue, message, Now)
  IN /\ ~crashed /\ fan.pc = "idle"
     /\ queue' = r.queue
     /\ hazard' = IF r.handled \subseteq {p \in Ports : alive[p]} THEN hazard
                   ELSE hazard \cup {"uaf"}
     /\ last' = [op |-> "onMessage", port |-> "none", arg |-> message, made |-> {},
                 thrown |-> {}, dev |-> dev, msg |-> r.msg, handled |-> r.handled]
     /\ UNCHANGED <<scope, drivers, alive, driver, driverId, device, deviceId, channel,
                    subscribed, pending, mismatch, unsubFails, escaped, oob, dangling,
                    crashed, shutdown, fan>>

\* the application saves port p with toJson and loads the record into port q
\* (p itself, or another port of the same kind) with fromJson
RoundTrip(p, q, o) ==
  /\ ~crashed /\ {p, q} \subseteq scope /\ alive[p] /\ alive[q] /\ AllowedLoad(q, Port_toJson(World, p), o)
  /\ Handle(LAMBDA w : Port_fromJson(w, q, Port_toJson(w, p), o), "roundTrip", q,
            [from |-> p, driverId |-> driverId[p], channel |-> channel[p],
             device |-> device[p], deviceId |-> deviceId[p]])
  /\ UNCHANGED <<scope, shutdown, alive, queue>>

\* the application asks a port for the name of device k
GetDeviceName(p, k, o) ==
  /\ ~crashed /\ p \in scope /\ alive[p]
  /\ \E r \in {getDeviceName(World, p, k, o)} :
       /\ Commit(r.w)
       /\ last' = [op |-> "getDeviceName", port |-> p, arg |-> k, made |-> Made(r.w),
                   thrown |-> Thrown(r.w), name |-> r.name]
  /\ UNCHANGED <<scope, shutdown, alive, queue, fan, hazard>>

\* what the previous operation on a device was
Was == [op |-> last.op, port |-> last.port, arg |-> last.arg,
        before |-> IF last.op \in {"subscribe", "unsubscribe"} THEN last.before ELSE {}]

\* a driver calls subscribe(p) on one of its devices
DeviceSubscribe(dev, p) ==
  /\ ~crashed /\ p \in scope
  /\ subscribed' = [subscribed EXCEPT ![dev] =
                      IF dev.dir = "in" THEN InputDevice_subscribe(@, p)
                      ELSE OutputDevice_subscribe(@, p)]
  /\ last' = [op |-> "subscribe", port |-> p, arg |-> dev, made |-> {}, thrown |-> {},
              before |-> subscribed[dev], was |-> Was]
  /\ UNCHANGED <<scope, drivers, alive, driver, driverId, device, deviceId, channel, queue,
                 pending, mismatch, unsubFails, escaped, oob, dangling, crashed, shutdown,
                 fan, hazard>>

\* a driver calls unsubscribe(p) on one of its devices
DeviceUnsubscribe(dev, p) ==
  /\ ~crashed /\ p \in scope
  /\ subscribed' = [subscribed EXCEPT ![dev] =
                      IF dev.dir = "in" THEN InputDevice_unsubscribe(@, p)
                      ELSE OutputDevice_unsubscribe(@, p)]
  /\ last' = [op |-> "unsubscribe", port |-> p, arg |-> dev, made |-> {}, thrown |-> {},
              before |-> subscribed[dev], was |-> Was]
  /\ UNCHANGED <<scope, drivers, alive, driver, driverId, device, deviceId, channel, queue,
                 pending, mismatch, unsubFails, escaped, oob, dangling, crashed, shutdown,
                 fan, hazard>>

\* a driver calls subscribe(p) once more on the device port p is bound to
DriverResubscribe(dev, p) ==
  /\ ~crashed /\ p \in scope /\ alive[p] /\ device[p] = dev /\ dev.dir = "in"
  /\ subscribed' = [subscribed EXCEPT ![dev] = InputDevice_subscribe(@, p)]
  /\ mismatch' = TRUE
  /\ last' = [op |-> "subscribe", port |-> p, arg |-> dev, made |-> {}, thrown |-> {},
              before |-> subscribed[dev], was |-> Was]
  /\ UNCHANGED <<scope, drivers, alive, driver, driverId, device, deviceId, channel, queue,
                 pending, unsubFails, escaped, oob, dangling, crashed, shutdown,
                 fan, hazard>>

\* midi::getDriver(id) called by the application
GetDriver(id) ==
  /\ ~crashed
  /\ last' = [op |-> "getDriver", port |-> "none", arg |-> id, made |-> {}, thrown |-> {},
              result |-> getDriver(drivers, id)]
  /\ UNCHANGED <<scope, drivers, alive, driver, driverId, device, deviceId, channel,
                 subscribed, queue, pending, mismatch, unsubFails, escaped, oob, dangling,
                 crashed, shutdown, fan, hazard>>

\* midi::getDriverIds() called by the application
GetDriverIds ==
  /\ ~crashed
  /\ last' = [op |-> "getDriverIds", port |-> "none", arg |-> -1, made |-> {}, thrown |-> {},
              result |-> getDriverIds(drivers)]
  /\ UNCHANGED <<scope, drivers, alive, driver, driverId, device, deviceId, channel,
                 subscribed, queue, pending, mismatch, unsubFails, escaped, oob, dangling,
                 crashed, shutdown, fan, hazard>>

\* the consumer of an InputQueue takes the message at the head
Shift(p) ==
  /\ ~crashed /\ p \in scope /\ alive[p] /\ queue[p] # <<>>
  /\ queue' = [queue EXCEPT ![p] = Tail(@)]
  /\ last' = [op |-> "shift", port |-> p, arg |-> Head(queue[p]), made |-> {}, thrown |-> {}]
  /\ UNCHANGED <<scope, drivers, alive, driver, driverId, device, deviceId, channel,
                 subscribed, pending, mismatch, unsubFails, escaped, oob, dangling,
                 crashed, shutdown, fan, hazard>>

\* mutant: a failed send unbinds the device
Output_sendFailed_unbind(w, p) == setDeviceId(w, p, -1, OracleOk)

\* lines 325-329: the catch block of Output::sendMessage does nothing
Output_sendFailed(w, p) == w

\* Output::sendMessage; ok: OutputDevice::sendMessage returns rather than throws
SendMessage(p, message, ok) ==
  LET r == Output_sendMessage(device[p], channel[p], message)
  IN /\ ~crashed /\ p \in scope /\ p \in Outputs /\ alive[p]
     /\ ok \/ r.sent
     /\ \E w \in {IF r.sent /\ ~ok THEN Output_sendFailed(World, p) ELSE World} : Commit(w)
     /\ last' = [op |-> "sendMessage", port |-> p, arg |-> message,
                 made |-> IF r.sent THEN {"send"} ELSE {},
                 thrown |-> IF ok THEN {} ELSE {"send"},
                 dev |-> device[p], msg |-> r.msg]
     /\ UNCHANGED <<scope, alive, queue, shutdown, fan, hazard>>

\* The driver thread enters InputDevice::onMessage (lines 32-36): the message
\* is copied and stamped, and the iteration of the subscriber set begins.
FanBegin(dev, message) ==
  /\ ~crashed /\ fan.pc = "idle" /\ dev.dir = "in"
  /\ fan' = [pc |-> "loop", dev |-> dev, msg |-> Stamped(message, Now),
             rest |-> subscribed[dev], cur |-> "none"]
  /\ last' = [op |-> "fanBegin", port |-> "none", arg |-> message, made |-> {}, thrown |-> {}]
  /\ UNCHANGED <<scope, drivers, alive, driver, driverId, device, deviceId, channel,
                 subscribed, queue, pending, mismatch, unsubFails, escaped, oob, dangling,
                 crashed, shutdown, hazard>>

\* lines 36-41: the iterator yields the next Input*, whose context and
\* channel are read for the filter
FanFetch(input) ==
  /\ ~crashed /\ fan.pc = "loop" /\ input \in fan.rest
  /\ fan' = [fan EXCEPT !.rest = @ \ {input}, !.cur = input,
                        !.pc = IF Passes(fan.msg, channel[input]) THEN "call" ELSE "loop"]
  /\ hazard' = IF alive[input] THEN hazard ELSE hazard \cup {"uaf"}
  /\ last' = [op |-> "fanFetch", port |-> input, arg |-> -1, made |-> {}, thrown |-> {}]
  /\ UNCHANGED <<scope, drivers, alive, driver, driverId, device, deviceId, channel,
                 subscribed, queue, pending, mismatch, unsubFails, escaped, oob, dangling,
                 crashed, shutdown>>

\* line 43: input->onMessage(msg)
FanDeliver ==
  /\ ~crashed /\ fan.pc = "call"
  /\ fan' = [fan EXCEPT !.pc = "loop"]
  /\ hazard' = IF alive[fan.cur] THEN hazard ELSE hazard \cup {"uaf"}
  /\ queue' = IF fan.cur \in InputQueues /\ alive[fan.cur]
              THEN [queue EXCEPT ![fan.cur] = InputQueue_onMessage(@, fan.msg)]
              ELSE queue
  /\ last' = [op |-> "fanDeliver", port |-> fan.cur, arg |-> -1, made |-> {}, thrown |-> {}]
  /\ UNCHANGED <<scope, drivers, alive, driver, driverId, device, deviceId, channel,
                 subscribed, pending, mismatch, unsubFails, escaped, oob, dangling,
                 crashed, shutdown>>

\* line 44-45: the iteration is over
FanEnd ==
  /\ ~crashed /\ fan.pc = "loop" /\ fan.rest = {}
  /\ fan' = FanIdle
  /\ last' = [op |-> "fanEnd", port |-> "none", arg |-> -1, made |-> {}, thrown |-> {}]
  /\ UNCHANGED <<scope, drivers, alive, driver, driverId, device, deviceId, channel,
                 subscribed, queue, pending, mismatch, unsubFails, escaped, oob, dangling,
                 crashed, shutdown, hazard>>

\* midi::addDriver: h is the Driver object the caller allocated
AddDriver(id, h) ==
  /\ ~crashed /\ ~shutdown /\ Len(drivers) < MaxDrivers /\ h = Len(drivers) + 1
  /\ drivers' = Append(drivers, [id |-> id, drv |-> h])
  /\ last' = [op |-> "addDriver", port |-> "none", arg |-> id, made |-> {}, thrown |-> {}]
  /\ UNCHANGED <<scope, alive, driver, driverId, device, deviceId, channel, subscribed,
                 queue, pending, mismatch, unsubFails, escaped, oob, dangling, crashed,
                 shutdown, fan, hazard>>

\* midi::destroy: every driver is deleted and the registry is cleared; the
\* ports keep the pointers they hold
DestroyRegistry ==
  /\ ~crashed /\ ~shutdown
  /\ drivers' = <<>>
  /\ shutdown' = TRUE
  /\ last' = [op |-> "destroy", port |-> "none", arg |-> -1, made |-> {}, thrown |-> {}]
  /\ UNCHANGED <<scope, alive, driver, driverId, device, deviceId, channel, subscribed,
                 queue, pending, mismatch, unsubFails, escaped, oob, dangling, crashed,
                 fan, hazard>>

Next ==
  \/ \E p \in Ports, o \in OraclesUnsub : Construct(p, o)
  \/ \E p \in Ports, o \in OraclesUnsub : Destruct(p, o)
  \/ \E p \in Ports, id \in -1..MaxDrivers, o \in OraclesUnsub : SetDriverId(p, id, o)
  \/ \E p \in Ports, k \in -1..MaxDevice, o \in OraclesBind : SetDeviceId(p, k, o)
  \/ \E p \in Ports, o \in OraclesUnsub : Reset(p, o)
  \/ \E p \in Ports, rootJ \in JsonsRebind, o \in OraclesLoad : FromJson(p, rootJ, o)

Spec == Init /\ [][Next]_vars

\* ---- the same operations on one port
InitOne == scope \in Singles /\ drivers = Registered /\ NoPorts

SpecOne == InitOne /\ [][Next]_vars

\* ---- construction and reset of one port, with one or more drivers registered
InitFresh ==
  /\ scope \in Singles
  /\ drivers \in {SubSeq(Registered, 1, n) : n \in 1..MaxDrivers}
  /\ NoPorts

NextFresh ==
  \/ \E p \in Ports, o \in OraclesUnsub : Construct(p, o)
  \/ \E p \in Ports, id \in -1..MaxDrivers, o \in OraclesUnsub : SetDriverId(p, id, o)
  \/ \E p \in Ports, k \in -1..MaxDevice, o \in OraclesBind : SetDeviceId(p, k, o)
  \/ \E p \in Ports, c \in Channels : SetChannel(p, c)
  \/ \E p \in Ports, o \in OraclesUnsub : Reset(p, o)

SpecFresh == InitFresh /\ [][NextFresh]_vars

\* ---- saving and loading ports: two Inputs, or two Outputs; the driver
\* calls return
InitJson ==
  /\ scope \in {Inputs \ InputQueues, Outputs}
  /\ drivers = Registered
  /\ NoPorts

NextJson ==
  \/ \E p \in Ports : Construct(p, OracleOk)
  \/ \E p \in Ports, id \in 1..MaxDrivers : SetDriverId(p, id, OracleOk)
  \/ \E p \in Ports, k \in -1..MaxDevice : SetDeviceId(p, k, OracleOk)
  \/ \E p \in Ports, c \in Channels : SetChannel(p, c)
  \/ \E p, q \in Ports : RoundTrip(p, q, OracleOk)

SpecJson == InitJson /\ [][NextJson]_vars

\* ---- device names asked of one port; the name lookup may throw
OraclesNames == {[OracleOk EXCEPT !.names = n] : n \in BOOLEAN}

NextNames ==
  \/ \E p \in Ports : Construct(p, OracleOk)
  \/ \E p \in Ports, id \in 1..MaxDrivers : SetDriverId(p, id, OracleOk)
  \/ \E p \in Ports, k \in -1..MaxDevice : SetDeviceId(p, k, OracleOk)
  \/ \E p \in Ports, k \in DeviceIds, o \in OraclesNames : GetDeviceName(p, k, o)

SpecNames == InitOne /\ [][NextNames]_vars

\* ---- the subscriber set of one InputDevice, or of one OutputDevice, under
\* the calls of its driver
InitDevice == scope \in {Inputs, Outputs} /\ drivers = Registered /\ NoPorts

NextDevice ==
  \/ \E p \in Inputs : DeviceSubscribe(InDevice(1, 0), p)
  \/ \E p \in Outputs : DeviceSubscribe(OutDevice(1, 0), p)
  \/ \E p \in Inputs : DeviceUnsubscribe(InDevice(1, 0), p)
  \/ \E p \in Outputs : DeviceUnsubscribe(OutDevice(1, 0), p)

SpecDevice == InitDevice /\ [][NextDevice]_vars

\* ---- messages through Input ports: the driver calls return, and every
\* fan-out runs to its end before the next operation
\* the devices of the default driver, the one the ports of these runs bind
DefaultInDevices == {InDevice(Registered[1].drv, k) : k \in DeviceIds}

\* messages a driver delivers without a timestamp
Unstamped == {m \in Messages : m.timestamp = 0}

\* two Inputs with channel filters
InitFilter == scope = Inputs \ InputQueues /\ drivers = Registered /\ NoPorts

NextFilter ==
  \/ \E p \in Inputs : Construct(p, OracleOk)
  \/ \E p \in Inputs, k \in -1..MaxDevice : SetDeviceId(p, k, OracleOk)
  \/ \E p \in Inputs, c \in Channels : SetChannel(p, c)
  \/ \E dev \in DefaultInDevices, message \in Messages : OnMessage(dev, message)

SpecFilter == InitFilter /\ [][NextFilter]_vars

\* an InputQueue and its consumer
InitQueue == scope = InputQueues /\ drivers = Registered /\ NoPorts

NextQueue ==
  \/ \E p \in InputQueues : Construct(p, OracleOk)
  \/ \E p \in InputQueues, k \in -1..MaxDevice : SetDeviceId(p, k, OracleOk)
  \/ \E p \in InputQueues, c \in Channels : SetChannel(p, c)
  \/ \E dev \in DefaultInDevices, message \in Unstamped : OnMessage(dev, message)
  \/ \E p \in InputQueues : Shift(p)

SpecQueue == InitQueue /\ [][NextQueue]_vars

\* an InputQueue that is rebound between devices and subscribed repeatedly
NextDeliver ==
  \/ \E p \in InputQueues : Construct(p, OracleOk)
  \/ \E p \in InputQueues, k \in -1..MaxDevice : SetDeviceId(p, k, OracleOk)
  \/ \E dev \in DefaultInDevices, p \in InputQueues : DriverResubscribe(dev, p)
  \/ \E dev \in DefaultInDevices, message \in Unstamped : OnMessage(dev, message)
  \/ \E p \in InputQueues : Shift(p)

SpecDeliver == InitQueue /\ [][NextDeliver]_vars

\* ---- messages through Output ports
InitOut == scope = Outputs /\ drivers = Registered /\ NoPorts

NextOut ==
  \/ \E p \in Outputs : Construct(p, OracleOk)
  \/ \E p \in Outputs, k \in -1..MaxDevice : SetDeviceId(p, k, OracleOk)
  \/ \E p \in Outputs, c \in Channels : SetChannel(p, c)
  \/ \E p \in Outputs, message \in Messages, ok \in BOOLEAN : SendMessage(p, message, ok)

SpecOut == InitOut /\ [][NextOut]_vars

\* ---- a driver thread inside InputDevice::onMessage while the application
\* thread constructs, rebinds and destroys Input ports
FanMessages == {m \in Unstamped : getChannel(m) = 0 /\ getStatus(m) # System}

NextConc ==
  \/ \E p \in Inputs : Construct(p, OracleOk)
  \/ \E p \in Inputs : Destruct(p, OracleOk)
  \/ \E p \in Inputs : SetDriverId(p, -1, OracleOk)
  \/ \E p \in Inputs, k \in -1..MaxDevice : SetDeviceId(p, k, OracleOk)
  \/ \E dev \in DefaultInDevices, message \in FanMessages : FanBegin(dev, message)
  \/ \E p \in Inputs : FanFetch(p)
  \/ FanDeliver
  \/ FanEnd

InitConc == scope = {"in1", "in2"} /\ drivers = Registered /\ NoPorts

SpecConc == InitConc /\ [][NextConc]_vars

\* ---- the registry as the application builds it and tears it down
\* drivers[0] of an empty vector: the process stops, or the read yields a
\* zeroed pair, or the pair that was there before clear()
OraclesRegistry ==
  {[OracleOk EXCEPT !.ub = u] :
     u \in {Crash, [id |-> 0, drv |-> NULL], [id |-> MaxDrivers, drv |-> 1]}}

InitRegistry == scope \in Scopes /\ drivers = <<>> /\ NoPorts

NextRegistry ==
  \/ \E id \in 1..MaxDrivers, h \in DriverHandles : AddDriver(id, h)
  \/ DestroyRegistry
  \/ \E p \in Ports, o \in OraclesRegistry : Construct(p, o)
  \/ \E p \in Ports, o \in OraclesRegistry : Destruct(p, o)
  \/ \E p \in Ports, id \in -1..MaxDrivers, o \in OraclesRegistry : SetDriverId(p, id, o)
  \/ \E p \in Ports, k \in -1..MaxDevice, o \in OraclesRegistry : SetDeviceId(p, k, o)
  \/ \E p \in Ports, o \in OraclesRegistry : Reset(p, o)
  \/ \E p \in Ports, o \in OraclesRegistry : FromJson(p, NoJson, o)

SpecRegistry == InitRegistry /\ [][NextRegistry]_vars

\* ---- the registry alone: registrations (ids may repeat), lookups, teardown
NextDrivers ==
  \/ \E id \in 0..MaxDrivers, h \in DriverHandles : AddDriver(id, h)
  \/ \E id \in -1..MaxDrivers : GetDriver(id)
  \/ GetDriverIds
  \/ DestroyRegistry

SpecDrivers == InitRegistry /\ [][NextDrivers]_vars

\* ------------------------------------------------------------ claims
SubscriptionsOf(p) == {d \in AllDevices : p \in subscribed[d]}

\* C1: a port is in a device's subscriber set if and only if that device is
\* the one the port currently has bound, whatever the driver calls do.
C1_SubscribedIffBound ==
  \A p \in Ports : \A d \in AllDevices : (p \in subscribed[d]) <=> (device[p] = d)

\* C2: a port is never in more than one subscriber set, and after a
\* setDeviceId(b) that bound device b it is in the set of b and in no other.
C2_RebindLeavesOneSubscription ==
  \A p \in Ports :
    /\ Cardinality(SubscriptionsOf(p)) <= 1
    /\ (last.op = "setDeviceId" /\ last.port = p /\ last.arg >= 0 /\ "sub" \notin last.thrown)
         => SubscriptionsOf(p) = {[dir |-> IF p \in Inputs THEN "in" ELSE "out",
                                   drv |-> driver[p], id |-> last.arg]}

\* C3: every successful subscribe call of a port is matched by one
\* unsubscribe call for the same device of the same driver before the
\* port's next subscribe call and before the port is gone: no call is
\* issued out of turn, at most one subscribe is outstanding (the bound
\* device's), and none is outstanding for a destroyed port.  As long as no
\* unsubscribe call has thrown, the subscriber sets a port is in are exactly
\* its outstanding subscribe.
C3_SubscribeMatchedByUnsubscribe ==
  /\ ~mismatch
  /\ \A p \in Ports :
       /\ pending[p] = IF device[p] = NoDevice THEN {} ELSE {device[p]}
       /\ ~alive[p] => pending[p] = {}
       /\ unsubFails = 0 => SubscriptionsOf(p) = pending[p]

\* C3 witness: a port that was subscribed has been destroyed, and its
\* destructor issued the unsubscribe call.
C3_Witness ==
  /\ last.op = "destruct" /\ "unsub" \in last.made
  /\ ~alive[last.port] /\ pending[last.port] = {}

\* C8: a setDeviceId(id), id >= 0, whose subscribe call threw lets no
\* exception out, leaves the port device-unbound and in no subscriber set.
C8_FailedSubscribeLeavesUnbound ==
  (last.op = "setDeviceId" /\ last.arg >= 0 /\ "sub" \in last.thrown)
    => /\ ~escaped
       /\ deviceId[last.port] = -1 /\ device[last.port] = NoDevice
       /\ SubscriptionsOf(last.port) = {}

\* C4: no fan-out of InputDevice::onMessage uses a port that has been
\* destroyed, and no subscriber set is changed while a fan-out iterates it.
C4_NoUnsafeFanOut == hazard = {}

\* C5: onMessage hands the message to a subscribed port exactly when the
\* message is a system message, or the port's filter is -1, or the message's
\* channel is the port's filter; it hands it to no port that is not subscribed.
C5_ChannelFilter ==
  last.op = "onMessage"
    => /\ last.handled \subseteq subscribed[last.dev]
       /\ \A p \in subscribed[last.dev] :
            (p \in last.handled) <=> \/ last.msg.b0 \div 16 = 15
                                     \/ channel[p] = -1
                                     \/ last.msg.b0 % 16 = channel[p]

\* C5 witness: one non-system message reached a port whose filter is its
\* channel and was kept from another subscriber whose filter is not.
C5_Witness ==
  /\ last.op = "onMessage" /\ last.msg.b0 \div 16 # 15
  /\ \E p, q \in subscribed[last.dev] :
       /\ p \in last.handled /\ channel[p] = last.msg.b0 % 16
       /\ q \notin last.handled /\ channel[q] >= 0

\* C6 (step): a message handed to an InputQueue that holds queueMaxSize messages
\* leaves the queue as it was, one handed to a shorter queue becomes its last
\* element, and no queue is ever longer than queueMaxSize.
C6_QueueStep ==
  \A p \in InputQueues :
    (last'.op = "onMessage" /\ p \in last'.handled)
      => queue'[p] = IF Len(queue[p]) = queueMaxSize THEN queue[p]
                     ELSE queue[p] \o <<last'.msg>>

\* C6: the queue bound in every state, and the step above in every step
C6_QueueBounded ==
  /\ [](\A p \in InputQueues : Len(queue[p]) <= queueMaxSize)
  /\ [][C6_QueueStep]_vars

\* C6 witness: a message was handed to a full InputQueue and is not in it.
C6_Witness ==
  /\ last.op = "onMessage" /\ "in1" \in last.handled
  /\ Len(queue["in1"]) = queueMaxSize
  /\ \A i \in 1..queueMaxSize : queue["in1"][i] # last.msg

\* C7: through an Output bound to a device, with channel c in 0..15,
\* sendMessage hands the device the message with the same status, data and
\* time, with channel c when it is not a system message and with byte 0
\* as it was when it is.
C7_SendStampsChannel ==
  (last.op = "sendMessage" /\ device[last.port] # NoDevice /\ channel[last.port] \in 0..15)
    => /\ "send" \in last.made
       /\ last.msg.b0 \div 16 = last.arg.b0 \div 16
       /\ last.msg.data1 = last.arg.data1 /\ last.msg.data2 = last.arg.data2
       /\ last.msg.timestamp = last.arg.timestamp
       /\ last.arg.b0 \div 16 # 15 => last.msg.b0 % 16 = channel[last.port]
       /\ last.arg.b0 \div 16 = 15 => last.msg.b0 = last.arg.b0

\* C7 witness: a non-system message on another channel went out through a
\* bound Output.
C7_Witness ==
  /\ last.op = "sendMessage" /\ device[last.port] # NoDevice
  /\ channel[last.port] \in 0..15 /\ last.arg.b0 \div 16 # 15
  /\ last.arg.b0 % 16 # channel[last.port] /\ "send" \in last.made

\* C9 (step): with a driver registered, a step of setDriverId(id) issues the
\* unsubscribe call for the device the port had bound (which leaves that
\* device's subscriber set when the call returns), ends device-unbound, and
\* ends bound to a driver registered under id with driverId = id when id is
\* registered, and to the first registered driver, with its id, when not.
C9_SetDriverIdStep ==
  (last'.op = "setDriverId" /\ Len(drivers) > 0)
    => LET p == last'.port
           id == last'.arg
           found == {i \in 1..Len(drivers) : drivers[i].id = id}
       IN /\ deviceId[p] >= 0 => "unsub" \in last'.made
          /\ (deviceId[p] >= 0 /\ "unsub" \notin last'.thrown) => p \notin subscribed'[device[p]]
          /\ deviceId'[p] = -1 /\ device'[p] = NoDevice /\ pending'[p] = {}
          /\ found # {} => /\ driverId'[p] = id
                            /\ \E i \in found : driver'[p] = drivers[i].drv
          /\ found = {} => /\ driverId'[p] = drivers[1].id
                            /\ driver'[p] = drivers[1].drv

\* C9: every step of setDriverId is as stated above
C9_SetDriverId == [][C9_SetDriverIdStep]_vars

\* C11: a port that has just been constructed or reset has driverId = -1, no
\* driver, deviceId = -1, no device, and channel -1 (Input) or 0 (Output).
C11_FreshPortUnbound ==
  last.op \in {"construct", "reset"}
    => /\ driverId[last.port] = -1 /\ driver[last.port] = NULL
       /\ deviceId[last.port] = -1 /\ device[last.port] = NoDevice
       /\ channel[last.port] = IF last.port \in Inputs THEN -1 ELSE 0

\* C11 (amended): a port that has just been constructed or reset has
\* deviceId = -1, no device, is in no subscriber set it was not left in by a
\* failed unsubscribe, has channel -1 (Input) or 0 (Output), and is bound to
\* the first registered driver with that driver's id.
C11_FreshPortDefaultDriver ==
  last.op \in {"construct", "reset"}
    => /\ deviceId[last.port] = -1 /\ device[last.port] = NoDevice
       /\ pending[last.port] = {}
       /\ unsubFails = 0 => SubscriptionsOf(last.port) = {}
       /\ channel[last.port] = IF last.port \in Inputs THEN -1 ELSE 0
       /\ driver[last.port] = drivers[1].drv /\ driverId[last.port] = drivers[1].id

\* C11 witness: reset has run on a port that had a device bound, with more
\* than one driver registered, and left it on the first driver.
C11_Witness ==
  /\ last.op = "reset" /\ "unsub" \in last.made
  /\ Len(drivers) > 1 /\ driver[last.port] = drivers[1].drv
  /\ pending[last.port] = {}

\* C12: a port that has been destroyed is in no device's subscriber set, and
\* a destruction of a port with a device bound issued the unsubscribe call.
C12_DestroyedPortUnsubscribed ==
  /\ \A p \in Ports : ~alive[p] => SubscriptionsOf(p) = {}
  /\ last.op = "destruct" => pending[last.port] = {}

\* C13: after fromJson of the record toJson made of a port, the loading port
\* has the driver id and the channel the saved port had and, when the saved
\* port had a device with a non-empty name bound, that device bound.
C13_RoundTrip ==
  last.op = "roundTrip"
    => /\ driverId[last.port] = last.arg.driverId
       /\ channel[last.port] = last.arg.channel
       /\ (last.arg.device # NoDevice /\ DeviceNameOf(last.arg.device) # "")
            => /\ deviceId[last.port] = last.arg.deviceId
               /\ device[last.port] = last.arg.device

\* C14: getDeviceName(id) returns the name the bound driver reports for id
\* when a driver is bound and the lookup returns, returns "" when no driver
\* is bound or the lookup throws, and makes no call through an absent driver.
C14_DeviceName ==
  last.op = "getDeviceName"
    => LET p == last.port
           dev == [dir |-> IF p \in Inputs THEN "in" ELSE "out", drv |-> driver[p],
                   id |-> last.arg]
       IN /\ (driver[p] # NULL /\ "name" \notin last.thrown) => last.name = DeviceNameOf(dev)
          /\ (driver[p] = NULL \/ "name" \in last.thrown) => last.name = ""
          /\ driver[p] = NULL => "name" \notin last.made

\* C15: the message the subscribers of one onMessage call are given has the
\* bytes of the driver's message; its timestamp is the current time, which
\* is not 0, when the driver's message has timestamp 0, and the driver's
\* timestamp otherwise.
C15_DeliveredCopy ==
  last.op = "onMessage"
    => /\ last.msg.b0 = last.arg.b0
       /\ last.msg.data1 = last.arg.data1 /\ last.msg.data2 = last.arg.data2
       /\ last.arg.timestamp = 0 => (last.msg.timestamp = Now /\ last.msg.timestamp # 0)
       /\ last.arg.timestamp # 0 => last.msg.timestamp = last.arg.timestamp

\* C15 witness: a message without a timestamp was handed to a subscriber.
C15_Witness ==
  /\ last.op = "onMessage" /\ last.arg.timestamp = 0
  /\ last.handled # {} /\ last.msg.timestamp = Now

\* C16: unsubscribe(P) leaves the set without P and with every other member
\* as it was, so that after subscribe(P), unsubscribe(P) the set is the set
\* before the subscribe less P; unsubscribe(P) of a port that is not a member
\* leaves the set as it was.
C16_SubscribeUnsubscribe ==
  /\ last.op = "unsubscribe"
       => /\ last.port \notin subscribed[last.arg]
          /\ subscribed[last.arg] \cup {last.port} = last.before \cup {last.port}
          /\ last.port \notin last.before => subscribed[last.arg] = last.before
  /\ (last.op = "unsubscribe" /\ last.was.op = "subscribe"
         /\ last.was.port = last.port /\ last.was.arg = last.arg)
       => subscribed[last.arg] = last.was.before \ {last.port}

\* C16 witness: subscribe(P), unsubscribe(P) on a device that has another
\* subscriber.
C16_Witness ==
  /\ last.op = "unsubscribe" /\ last.was.op = "subscribe"
  /\ last.was.port = last.port /\ last.was.arg = last.arg
  /\ last.port \notin last.was.before
  /\ subscribed[last.arg] # {}

\* C17 (state): getDriverIds() is the ids of the registry in its order, and
\* getDriver(id) is a driver registered under id, or null when there is none.
C17_Lookups ==
  /\ last.op = "getDriverIds"
       => /\ Len(last.result) = Len(drivers)
          /\ \A i \in 1..Len(drivers) : last.result[i] = drivers[i].id
  /\ last.op = "getDriver"
       => LET found == {i \in 1..Len(drivers) : drivers[i].id = last.arg}
          IN /\ found = {} => last.result = NULL
             /\ found # {} => \E i \in found : last.result = drivers[i].drv

\* C17 (step): addDriver(id) puts id after the ids registered before it,
\* destroy empties the registry, and nothing else changes it.
C17_RegistryStep ==
  /\ last'.op = "addDriver"
       => /\ SubSeq(drivers', 1, Len(drivers)) = drivers
          /\ getDriverIds(drivers') = Append(getDriverIds(drivers), last'.arg)
  /\ last'.op = "destroy" => drivers' = <<>>
  /\ last'.op \notin {"addDriver", "destroy"} => drivers' = drivers

\* C17: the lookups in every state, and the registry step in every step
C17_Registry == []C17_Lookups /\ [][C17_RegistryStep]_vars

\* C17 witness: with two ids registered, getDriver found the driver that
\* was registered second.
C17_Witness ==
  /\ last.op = "getDriver" /\ Len(drivers) > 1
  /\ last.arg # drivers[1].id /\ last.result = drivers[2].drv

\* C18 (step): a sendMessage step changes no port's driver, device or channel
\* and no subscriber set, lets no exception out, also when the device's send
\* throws, and hands nothing to a device when the port has none.
C18_SendStep ==
  last'.op = "sendMessage"
    => /\ driver' = driver /\ driverId' = driverId
       /\ device' = device /\ deviceId' = deviceId
       /\ channel' = channel /\ subscribed' = subscribed
       /\ ~escaped' /\ ~crashed'
       /\ device[last'.port] = NoDevice => "send" \notin last'.made

\* C18: every step of sendMessage is as stated above
C18_SendChangesNothing == [][C18_SendStep]_vars

\* C18 witness: the device's send threw for a bound Output.
C18_Witness ==
  /\ last.op = "sendMessage" /\ "send" \in last.thrown
  /\ device[last.port] # NoDevice /\ deviceId[last.port] >= 0

\* C19 (step): the queue of an InputQueue changes only by losing its head to
\* the consumer, by being emptied with the port, or by gaining at its tail
\* the message of the onMessage call in progress, once, when the port is
\* subscribed to the receiving device and the message passes its filter.
C19_QueueOrderStep ==
  \A p \in InputQueues :
    \/ queue'[p] = queue[p]
    \/ last'.op = "shift" /\ last'.port = p /\ queue'[p] = Tail(queue[p])
    \/ last'.op = "destruct" /\ last'.port = p /\ queue'[p] = <<>>
    \/ /\ last'.op = "onMessage" /\ p \in subscribed[last'.dev]
       /\ \/ last'.arg.b0 \div 16 = 15
          \/ channel[p] < 0
          \/ last'.arg.b0 % 16 = channel[p]
       /\ last'.msg.b0 = last'.arg.b0
       /\ queue'[p] = queue[p] \o <<last'.msg>>

\* C19: every step changes the queue as stated above, so that its content is
\* at all times, in order, messages its device received that passed the filter
C19_QueueOrder == [][C19_QueueOrderStep]_vars

\* C19 witness: the queue holds two different messages, the second being the
\* one that has just arrived.
C19_Witness ==
  /\ last.op = "onMessage" /\ Len(queue["in1"]) = 2
  /\ queue["in1"][1] # queue["in1"][2] /\ queue["in1"][2] = last.msg

\* C20 (step): one onMessage call of a device hands the message to ports of
\* its subscriber set only, and to each of them at most once: the queue of a
\* subscribed InputQueue gains at most one message, that of any other none.
C20_DeliverStep ==
  last'.op = "onMessage"
    => /\ last'.handled \subseteq subscribed[last'.dev]
       /\ \A p \in InputQueues :
            IF p \in last'.handled
            THEN queue'[p] \in {queue[p], queue[p] \o <<last'.msg>>}
            ELSE queue'[p] = queue[p]

\* C20: no onMessage call delivers twice to a port or to a port outside the
\* device's subscriber set, whatever subscribe calls and rebinds came before
C20_NoDuplicateDelivery == [][C20_DeliverStep]_vars

\* C20 witness: after a repeated subscribe, a message has been delivered to
\* the InputQueue and is in its queue once.
C20_Witness ==
  /\ last.op = "onMessage" /\ mismatch /\ "in1" \in last.handled
  /\ queue["in1"] = <<last.msg>> /\ deviceId["in1"] = MaxDevice

\* C10: with an empty registry no operation reads drivers[0], and
\* construction, setDriverId, reset and fromJson leave the port with no
\* driver, driverId = -1 and no device.
C10_EmptyRegistryFailsClosed ==
  /\ ~oob
  /\ (last.op \in {"construct", "setDriverId", "reset", "fromJson"} /\ drivers = <<>>)
       => /\ driver[last.port] = NULL /\ driverId[last.port] = -1
          /\ device[last.port] = NoDevice /\ deviceId[last.port] = -1

\* C9 witness: setDriverId with the id of the second registered driver has
\* run on a port that had a device bound.
C9_Witness ==
  /\ last.op = "setDriverId" /\ "unsub" \in last.made
  /\ Len(drivers) > 1 /\ last.arg = drivers[2].id
  /\ driver[last.port] = drivers[2].drv

====
